---- MODULE Spec2Model ----
(***************************************************************************)
(* Model of the DevRev MCP server: startup authentication                  *)
(* (auth.py, __main__.py on_connect/main), the API client operations and   *)
(* its shared request executor (client.py) and the error classifier        *)
(* (errors.py).                                                            *)
(***************************************************************************)
EXTENDS Integers, Sequences, FiniteSets, TLC

\* The field names of the records below.  Every record lists its fields in
\* this order.
FieldNames ==
    [ Authorization |-> TRUE, ContentType |-> TRUE, api_key |-> TRUE,
      applies_to_part |-> TRUE, args |-> TRUE, body |-> TRUE,
      current_user |-> TRUE, cursor |-> TRUE, d |-> TRUE, data |-> TRUE,
      dev_user |-> TRUE, display_name |-> TRUE, endpoint |-> TRUE,
      error |-> TRUE, ev |-> TRUE, exc |-> TRUE, headers |-> TRUE,
      id |-> TRUE, json |-> TRUE, kind |-> TRUE, kwargs |-> TRUE, l |-> TRUE,
      limit |-> TRUE, max_retries |-> TRUE, message |-> TRUE,
      method |-> TRUE, n |-> TRUE, name |-> TRUE, namespace |-> TRUE,
      namespaces |-> TRUE, none |-> TRUE, object_id |-> TRUE,
      owned_by |-> TRUE, params |-> TRUE, parent_part |-> TRUE,
      part |-> TRUE, part_id |-> TRUE, part_type |-> TRUE, parts |-> TRUE,
      query |-> TRUE, response_body |-> TRUE, results |-> TRUE, s |-> TRUE,
      secs |-> TRUE, stage |-> TRUE, status |-> TRUE, status_code |-> TRUE,
      t |-> TRUE, text |-> TRUE, timeout |-> TRUE, title |-> TRUE,
      type |-> TRUE, url |-> TRUE, value |-> TRUE, work |-> TRUE,
      work_id |-> TRUE, work_type |-> TRUE, works |-> TRUE ]

(***************************************************************************)
(* Python values.  Python is dynamically typed, so every value that can be *)
(* of more than one type is tagged by the name of its single field.        *)
(***************************************************************************)
None == [none |-> TRUE]
S(s) == [s |-> s]
N(n) == [n |-> n]
D(f) == [d |-> f]
L(q) == [l |-> q]
T(q) == [t |-> q]

EmptyDict == [k \in {} |-> None]

IsStr(v) == DOMAIN v = {"s"}
IsDict(v) == DOMAIN v = {"d"}
IsList(v) == DOMAIN v = {"l"}

\* Python truthiness (bool(v)): None, "", 0, {} and [] are falsy.
Truthy(v) ==
    /\ v # None
    /\ v # S("")
    /\ v # N(0)
    /\ v # D(EmptyDict)
    /\ v # L(<<>>)

\* dict.get(key, default) on a dict value.
DictGet(dv, key, default) ==
    IF key \in DOMAIN dv.d THEN dv.d[key] ELSE default

\* str.startswith(prefix)
StartsWith(str, prefix) ==
    /\ Len(str) >= Len(prefix)
    /\ SubSeq(str, 1, Len(prefix)) = prefix

Pow2(k) == 2 ^ k

RECURSIVE SumSeq(_)
SumSeq(q) == IF q = <<>> THEN 0 ELSE Head(q) + SumSeq(Tail(q))

(***************************************************************************)
(* Bounds of the model.                                                    *)
(***************************************************************************)
\* config.api.retries is read from DEVREV_API_RETRIES (default 3); the model
\* covers every value from 0 up to this cap.
MaxRetriesCap == 3

(***************************************************************************)
(* Endpoints (client.py, auth.py).                                         *)
(***************************************************************************)
SEARCH_ENDPOINT == "/search.core"
WORKS_ENDPOINT == "/works.get"
WORKS_LIST_ENDPOINT == "/works.list"
WORKS_CREATE_ENDPOINT == "/works.create"
WORKS_UPDATE_ENDPOINT == "/works.update"
PARTS_ENDPOINT == "/parts.get"
PARTS_LIST_ENDPOINT == "/parts.list"
DEV_USERS_ENDPOINT == "/dev-users.get"
DEV_USER_SELF_ENDPOINT == "/dev-users.self"

(***************************************************************************)
(* HTTP responses and JSON bodies.                                         *)
(***************************************************************************)
\* json.loads on the body texts the model's server can send; a text outside
\* the table is not JSON (JSONDecodeError).
JsonTable ==
    [ t \in { "{\"dev_user\":{\"id\":\"DEVU-1\",\"display_name\":\"Ada\"}}",
              "{\"dev_user\":{\"display_name\":\"Ada\"}}",
              "{\"dev_user\":{}}",
              "{\"results\":[\"r1\"]}",
              "{\"works\":[\"w1\"]}",
              "{\"work\":{\"id\":\"ISS-9\"}}",
              "{\"part\":{\"id\":\"PROD-1\"}}",
              "{\"parts\":[\"p1\"]}",
              "{\"id\":\"ISS-42\"}",
              "{\"works\":null}",
              "{\"work\":[]}",
              "{\"message\":\"bad request\"}",
              "{\"error\":\"denied\"}",
              "{\"message\":\"bad request\",\"error\":\"denied\"}",
              "{}", "[]", "[\"message\"]", "null", "7",
              "\"message lost\"", "\"oops\"" } |->
      CASE t = "{\"dev_user\":{\"id\":\"DEVU-1\",\"display_name\":\"Ada\"}}" ->
               D([dev_user |-> D([display_name |-> S("Ada"), id |-> S("DEVU-1")])])
        [] t = "{\"dev_user\":{\"display_name\":\"Ada\"}}" ->
               D([dev_user |-> D([display_name |-> S("Ada")])])
        [] t = "{\"dev_user\":{}}" -> D([dev_user |-> D(EmptyDict)])
        [] t = "{\"results\":[\"r1\"]}" -> D([results |-> L(<<S("r1")>>)])
        [] t = "{\"works\":[\"w1\"]}" -> D([works |-> L(<<S("w1")>>)])
        [] t = "{\"work\":{\"id\":\"ISS-9\"}}" -> D([work |-> D([id |-> S("ISS-9")])])
        [] t = "{\"part\":{\"id\":\"PROD-1\"}}" -> D([part |-> D([id |-> S("PROD-1")])])
        [] t = "{\"parts\":[\"p1\"]}" -> D([parts |-> L(<<S("p1")>>)])
        [] t = "{\"id\":\"ISS-42\"}" -> D([id |-> S("ISS-42")])
        [] t = "{\"works\":null}" -> D([works |-> None])
        [] t = "{\"work\":[]}" -> D([work |-> L(<<>>)])
        [] t = "{\"message\":\"bad request\"}" -> D([message |-> S("bad request")])
        [] t = "{\"error\":\"denied\"}" -> D([error |-> S("denied")])
        [] t = "{\"message\":\"bad request\",\"error\":\"denied\"}" ->
               D([error |-> S("denied"), message |-> S("bad request")])
        [] t = "{}" -> D(EmptyDict)
        [] t = "[]" -> L(<<>>)
        [] t = "[\"message\"]" -> L(<<S("message")>>)
        [] t = "null" -> None
        [] t = "7" -> N(7)
        [] t = "\"message lost\"" -> S("message lost")
        [] t = "\"oops\"" -> S("oops") ]

IsJson(text) == text \in DOMAIN JsonTable
json_loads(text) == JsonTable[text]

\* What one HTTP attempt can produce: a response (requests.Response) or a
\* transport exception without a response (Timeout, ConnectionError).
SuccessStatuses == { 200 }
ErrorStatuses == { 400, 401, 403, 404, 429, 500 }

AuthSuccessTexts ==
    { "{\"dev_user\":{\"id\":\"DEVU-1\",\"display_name\":\"Ada\"}}",
      "{\"dev_user\":{\"display_name\":\"Ada\"}}",
      "{\"dev_user\":{}}",
      "{}", "{\"id\":\"ISS-42\"}", "[]", "null", "Not Found" }

ApiSuccessTexts ==
    { "{\"results\":[\"r1\"]}", "{\"works\":[\"w1\"]}",
      "{\"work\":{\"id\":\"ISS-9\"}}", "{\"part\":{\"id\":\"PROD-1\"}}",
      "{\"parts\":[\"p1\"]}", "{\"id\":\"ISS-42\"}", "{}", "[]", "null",
      "{\"works\":null}", "{\"work\":[]}", "Not Found" }

Response(status, text) == [kind |-> "response", status |-> status, text |-> text]
NoResponse(exc) == [kind |-> exc]

\* Error responses: every body shape, and every status with a body that is
\* not JSON (where the status picks the message).
ErrorTexts ==
    { "{\"message\":\"bad request\"}", "{\"error\":\"denied\"}",
      "{\"message\":\"bad request\",\"error\":\"denied\"}",
      "{}", "[]", "[\"message\"]", "null", "7", "\"message lost\"",
      "\"oops\"", "Not Found", "" }

ErrorResponses ==
    { Response(400, tx) : tx \in ErrorTexts }
        \cup { Response(st, "Not Found") : st \in ErrorStatuses }
        \cup { Response(401, "{}"), Response(404, "{\"message\":\"bad request\"}"),
               Response(429, "{\"error\":\"denied\"}"), Response(500, "") }
TransportFailures == { NoResponse("Timeout"), NoResponse("ConnectionError") }
Failures == ErrorResponses \cup TransportFailures

\* Whether the failure of an attempt carries an HTTP response
\* (requests.exceptions.HTTPError raised by raise_for_status).
HasResponse(f) == f.kind = "response"

(***************************************************************************)
(* Outcomes of a function call: a returned value or a raised exception.    *)
(***************************************************************************)
Return(v) == [kind |-> "return", value |-> v]
Raise(exc, msg) == [exc |-> exc, kind |-> "raise", message |-> msg]
RaiseAPIError(msg, status, body) ==
    [exc |-> "DevRevAPIError", kind |-> "raise", message |-> msg,
     response_body |-> body, status_code |-> status]
Pending == [kind |-> "pending"]

Returned(o) == o.kind = "return"
Raised(o) == o.kind = "raise"

(***************************************************************************)
(* errors.py: handle_api_error                                             *)
(***************************************************************************)
DefaultMessage == "An error occurred while communicating with the DevRev API"
Msg401 == "Authentication failed. Please check your API key."
Msg403 == "You don't have permission to access this resource."
Msg404 == "The requested resource was not found."
Msg429 == "Rate limit exceeded. Please try again later."
ConnectMessage ==
    "Could not connect to DevRev API. Please check your internet connection."

\* Python's `x in container` for the containers a JSON body can parse to:
\* key membership for a dict, element membership for a list, substring for a
\* str.  None and numbers are not containers (TypeError), see InRaises.
Contains(str, sub) ==
    \E i \in 1..(Len(str) - Len(sub) + 1) : SubSeq(str, i, i + Len(sub) - 1) = sub

InRaises(data) == ~(IsDict(data) \/ IsList(data) \/ IsStr(data))

PyIn(key, data) ==
    IF IsDict(data) THEN key \in DOMAIN data.d
    ELSE IF IsList(data) THEN \E i \in 1..Len(data.l) : data.l[i] = S(key)
    ELSE Contains(data.s, key)

\* Fallback message of the except branch (the body is not JSON).
StatusMessage(status_code) ==
    CASE status_code = 401 -> Msg401
      [] status_code = 403 -> Msg403
      [] status_code = 404 -> Msg404
      [] status_code = 429 -> Msg429
      [] OTHER -> DefaultMessage

\* Mutant of the message extraction: the 'error' field looked up before the
\* 'message' field.
MessageFromJsonErrorFirst(error_data) ==
    IF InRaises(error_data) THEN Raise("TypeError", "not iterable")
    ELSE IF PyIn("error", error_data)
         THEN IF IsDict(error_data) THEN Return(error_data.d["error"])
              ELSE Raise("TypeError", "indices must be integers")
    ELSE IF PyIn("message", error_data)
         THEN IF IsDict(error_data) THEN Return(error_data.d["message"])
              ELSE Raise("TypeError", "indices must be integers")
    ELSE Return(S(DefaultMessage))

\* The try block of handle_api_error on a parsed body: the message it picks,
\* or the TypeError it lets escape (`in` on None or a number, or indexing a
\* str or a list with a str key).
MessageFromJson(error_data) ==
    IF InRaises(error_data) THEN Raise("TypeError", "not iterable")
    ELSE IF PyIn("message", error_data)
         THEN IF IsDict(error_data) THEN Return(error_data.d["message"])
              ELSE Raise("TypeError", "indices must be integers")
    ELSE IF PyIn("error", error_data)
         THEN IF IsDict(error_data) THEN Return(error_data.d["error"])
              ELSE Raise("TypeError", "indices must be integers")
    ELSE Return(S(DefaultMessage))

\* Mutant of the classifier: the connectivity failure raised as a structured
\* error with status 503 instead of being returned.
handle_api_error_raising_503(error) ==
    IF HasResponse(error)
    THEN IF IsJson(error.text)
         THEN LET m == MessageFromJson(json_loads(error.text))
              IN  IF Raised(m) THEN m
                  ELSE RaiseAPIError(m.value, error.status, error.text)
         ELSE RaiseAPIError(S(StatusMessage(error.status)), error.status, error.text)
    ELSE RaiseAPIError(S(ConnectMessage), 503, "")

handle_api_error(error) ==
    IF HasResponse(error)
    THEN IF IsJson(error.text)
         THEN LET m == MessageFromJson(json_loads(error.text))
              IN  IF Raised(m) THEN m
                  ELSE RaiseAPIError(m.value, error.status, error.text)
         ELSE RaiseAPIError(S(StatusMessage(error.status)), error.status, error.text)
    ELSE Return(T(<<S(ConnectMessage), N(503)>>))

(***************************************************************************)
(* config.py                                                               *)
(***************************************************************************)
API_BASE_URL == "https://api.devrev.ai"
\* config.api.timeout (DEVREV_API_TIMEOUT, seconds)
ApiTimeout == 30

(***************************************************************************)
(* client.py: DevRevClient                                                 *)
(***************************************************************************)
\* DevRevClient.__init__
DevRevClient(key, current_user, retries_cfg) ==
    [ api_key |-> key,
      current_user |-> current_user,
      headers |-> [Authorization |-> key, ContentType |-> S("application/json")],
      max_retries |-> retries_cfg,
      timeout |-> ApiTimeout ]

\* The call self._make_request(method, endpoint, **kwargs) an operation ends
\* with; kwargs holds params (GET) or json (POST), or neither.
MakeRequest(method, endpoint, kwargs) ==
    [endpoint |-> endpoint, kind |-> "request", kwargs |-> kwargs, method |-> method]

IsRequest(r) == r.kind = "request"

\* A dict literal extended by `d[key] = value` when cond holds.
PutIf(cond, dict, key, value) ==
    IF cond THEN [k \in DOMAIN dict \cup {key} |-> IF k = key THEN value ELSE dict[k]]
    ELSE dict

valid_namespaces ==
    { "account", "article", "capability", "component", "conversation",
      "custom_object", "custom_part", "custom_work", "dashboard", "dev_user",
      "enhancement", "feature", "group", "issue", "linkable", "microservice",
      "object_member", "operation", "opportunity", "part", "product", "project",
      "question_answer", "rev_org", "rev_user", "runnable", "service_account",
      "sys_user", "tag", "task", "ticket", "vista", "workflow", "comment" }

namespace_map ==
    ("account" :> "account") @@ ("article" :> "artifact") @@
    ("capability" :> "capability") @@ ("component" :> "component") @@
    ("conversation" :> "conversation") @@ ("comment" :> "comment") @@
    ("custom_object" :> "custom_object") @@ ("custom_part" :> "custom_part") @@
    ("custom_work" :> "custom_work") @@ ("dashboard" :> "dashboard") @@
    ("dev_user" :> "dev_user") @@ ("enhancement" :> "enhancement") @@
    ("feature" :> "feature") @@ ("group" :> "group") @@ ("issue" :> "issue") @@
    ("linkable" :> "linkable") @@ ("microservice" :> "microservice") @@
    ("object_member" :> "object_member") @@ ("operation" :> "operation") @@
    ("opportunity" :> "opportunity") @@ ("part" :> "part") @@
    ("product" :> "product") @@ ("project" :> "project") @@
    ("question_answer" :> "question_answer") @@ ("rev_org" :> "rev_org") @@
    ("rev_user" :> "rev_user") @@ ("runnable" :> "runnable") @@
    ("service_account" :> "service_account") @@ ("sys_user" :> "sys_user") @@
    ("tag" :> "tag") @@ ("task" :> "task") @@ ("ticket" :> "ticket") @@
    ("vista" :> "vista") @@ ("workflow" :> "workflow")

\* `namespace not in valid_namespaces` replaces the namespace by "issue".
NormalizeNamespace(namespace) ==
    IF IsStr(namespace) /\ namespace.s \in valid_namespaces
    THEN namespace ELSE S("issue")

\* namespace_map.get(namespace, "issue"); the mutant sends the logical name.
WireNamespaceIdentity(namespace) == namespace
WireNamespace(namespace) ==
    IF namespace.s \in DOMAIN namespace_map
    THEN S(namespace_map[namespace.s]) ELSE S("issue")

\* DevRevClient.search
search(self, query, namespace) ==
    MakeRequest("GET", SEARCH_ENDPOINT,
        [params |-> D([limit |-> N(10),
                       namespaces |-> WireNamespace(NormalizeNamespace(namespace)),
                       query |-> query])])

\* Mutants of the checks of create_work: the part reference tested against
\* None only, and "ticket" accepted as a creatable work type.
create_work_rejection_part_none(work_type, applies_to_part) ==
    IF work_type \notin {S("issue"), S("task")}
    THEN Raise("ValueError", "Unsupported work type")
    ELSE IF work_type = S("issue") /\ applies_to_part = None
    THEN Raise("ValueError", "applies_to_part is required for issues")
    ELSE None

create_work_rejection_ticket(work_type, applies_to_part) ==
    IF work_type \notin {S("issue"), S("task"), S("ticket")}
    THEN Raise("ValueError", "Unsupported work type")
    ELSE IF work_type \in {S("issue"), S("ticket")} /\ ~Truthy(applies_to_part)
    THEN Raise("ValueError", "applies_to_part is required for issues")
    ELSE None

\* DevRevClient.create_work: the two checks made before anything else; the
\* ValueError raised, or None when the call is accepted.
create_work_rejection(work_type, applies_to_part) ==
    IF work_type \notin {S("issue"), S("task")}
    THEN Raise("ValueError", "Unsupported work type")
    ELSE IF work_type = S("issue") /\ ~Truthy(applies_to_part)
    THEN Raise("ValueError", "applies_to_part is required for issues")
    ELSE None

\* Mutant of the payload of create_work: the optional fields tested against
\* None, so that an empty part reference or body is sent.
create_work_payload_not_none(self, work_type, title, applies_to_part, body) ==
    LET owned_by == IF Truthy(self.current_user)
                    THEN L(<<DictGet(self.current_user, "id", None)>>)
                    ELSE L(<<>>)
        p0 == [owned_by |-> owned_by, title |-> title, type |-> work_type]
        p1 == PutIf(applies_to_part # None, p0, "applies_to_part", applies_to_part)
    IN  PutIf(body # None, p1, "body", body)

\* DevRevClient.create_work: the request payload
create_work_payload(self, work_type, title, applies_to_part, body) ==
    LET owned_by == IF Truthy(self.current_user)
                    THEN L(<<DictGet(self.current_user, "id", None)>>)
                    ELSE L(<<>>)
        p0 == [owned_by |-> owned_by, title |-> title, type |-> work_type]
        p1 == PutIf(Truthy(applies_to_part), p0, "applies_to_part", applies_to_part)
    IN  PutIf(Truthy(body), p1, "body", body)

\* DevRevClient.create_work
create_work(self, work_type, title, applies_to_part, body) ==
    LET rejection == create_work_rejection(work_type, applies_to_part)
    IN  IF rejection # None THEN rejection
        ELSE MakeRequest("POST", WORKS_CREATE_ENDPOINT,
                 [json |-> D(create_work_payload(self, work_type, title,
                                                 applies_to_part, body))])

\* Mutant of update_work: the title tested for truth, as create_work tests
\* its optional fields.
update_work_truthy(self, work_id, title, applies_to_part, body, stage, status) ==
    LET p0 == [id |-> work_id]
        p1 == PutIf(Truthy(title), p0, "title", title)
        p2 == PutIf(applies_to_part # None, p1, "applies_to_part", applies_to_part)
        p3 == PutIf(body # None, p2, "body", body)
        p4 == PutIf(stage # None, p3, "stage", stage)
        p5 == PutIf(status # None, p4, "status", status)
    IN  MakeRequest("POST", WORKS_UPDATE_ENDPOINT, [json |-> D(p5)])

\* DevRevClient.update_work
update_work(self, work_id, title, applies_to_part, body, stage, status) ==
    LET p0 == [id |-> work_id]
        p1 == PutIf(title # None, p0, "title", title)
        p2 == PutIf(applies_to_part # None, p1, "applies_to_part", applies_to_part)
        p3 == PutIf(body # None, p2, "body", body)
        p4 == PutIf(stage # None, p3, "stage", stage)
        p5 == PutIf(status # None, p4, "status", status)
    IN  MakeRequest("POST", WORKS_UPDATE_ENDPOINT, [json |-> D(p5)])

\* Mutant of _determine_object_type: SELF matched as a prefix.
determine_object_type_self_prefix(object_id) ==
    IF StartsWith(object_id, "ISS-") THEN "issue"
    ELSE IF StartsWith(object_id, "TKT-") THEN "ticket"
    ELSE IF StartsWith(object_id, "ART-") THEN "article"
    ELSE IF StartsWith(object_id, "SELF") \/ StartsWith(object_id, "DEVU-") THEN "user"
    ELSE "unknown"

\* DevRevClient._determine_object_type
determine_object_type(object_id) ==
    IF StartsWith(object_id, "ISS-") THEN "issue"
    ELSE IF StartsWith(object_id, "TKT-") THEN "ticket"
    ELSE IF StartsWith(object_id, "ART-") THEN "article"
    ELSE IF object_id = "SELF" \/ StartsWith(object_id, "DEVU-") THEN "user"
    ELSE "unknown"

\* DevRevClient.get_object
get_object(self, object_id) ==
    LET object_type == determine_object_type(object_id.s)
    IN  IF object_type \in {"issue", "ticket", "article"}
        THEN MakeRequest("GET", WORKS_ENDPOINT \o "?id=" \o object_id.s, EmptyDict)
        ELSE IF object_type = "user"
        THEN MakeRequest("GET", DEV_USERS_ENDPOINT \o "?id=" \o object_id.s, EmptyDict)
        ELSE Raise("ValueError", "Unsupported object ID format")

\* Mutant of list_works: the owner "self" sent as given, not resolved.
list_works_unresolved(self, work_type, owned_by, limit, applies_to_part, cursor) ==
    LET p1 == PutIf(Truthy(work_type), EmptyDict, "type", work_type)
        p2 == PutIf(Truthy(owned_by), p1, "owned_by", owned_by)
        p3 == PutIf(Truthy(limit), p2, "limit", limit)
        p4 == PutIf(Truthy(applies_to_part), p3, "applies_to_part", applies_to_part)
        p5 == PutIf(Truthy(cursor), p4, "cursor", cursor)
    IN  MakeRequest("GET", WORKS_LIST_ENDPOINT, [params |-> D(p5)])

\* DevRevClient.list_works
list_works(self, work_type, owned_by, limit, applies_to_part, cursor) ==
    LET actual_owned_by == IF owned_by = S("self")
                           THEN DictGet(self.current_user, "id", None)
                           ELSE owned_by
        p1 == PutIf(Truthy(work_type), EmptyDict, "type", work_type)
        p2 == PutIf(Truthy(actual_owned_by), p1, "owned_by", actual_owned_by)
        p3 == PutIf(Truthy(limit), p2, "limit", limit)
        p4 == PutIf(Truthy(applies_to_part), p3, "applies_to_part", applies_to_part)
        p5 == PutIf(Truthy(cursor), p4, "cursor", cursor)
    IN  MakeRequest("GET", WORKS_LIST_ENDPOINT, [params |-> D(p5)])

\* DevRevClient.get_part
get_part(self, part_id) ==
    MakeRequest("GET", PARTS_ENDPOINT, [params |-> D([id |-> part_id])])

\* str.lower() on ASCII text
LowerChar(c) ==
    LET up == "ABCDEFGHIJKLMNOPQRSTUVWXYZ"
        lo == "abcdefghijklmnopqrstuvwxyz"
    IN  IF \E i \in 1..26 : SubSeq(up, i, i) = c
        THEN LET i == CHOOSE j \in 1..26 : SubSeq(up, j, j) = c IN SubSeq(lo, i, i)
        ELSE c

RECURSIVE Lower(_)
Lower(str) ==
    IF Len(str) = 0 THEN ""
    ELSE LowerChar(SubSeq(str, 1, 1)) \o Lower(SubSeq(str, 2, Len(str)))

valid_types == { "capability", "enhancement", "feature", "linkable", "runnable", "product" }

\* The warning list_parts logs for an unknown part type.
list_parts_warns(part_type) == Lower(part_type.s) \notin valid_types

\* Mutant of list_parts: the validation refuses an unknown part type.
list_parts_rejecting(self, part_type, cursor, parent_part) ==
    LET p0 == [type |-> part_type]
        p1 == PutIf(Truthy(cursor), p0, "cursor", cursor)
        p2 == PutIf(Truthy(parent_part), p1, "parent_part.parts", parent_part)
    IN  IF list_parts_warns(part_type)
        THEN Raise("ValueError", "Invalid part type")
        ELSE MakeRequest("GET", PARTS_LIST_ENDPOINT, [params |-> D(p2)])

\* DevRevClient.list_parts
list_parts(self, part_type, cursor, parent_part) ==
    LET p0 == [type |-> part_type]
        p1 == PutIf(Truthy(cursor), p0, "cursor", cursor)
        p2 == PutIf(Truthy(parent_part), p1, "parent_part.parts", parent_part)
    IN  MakeRequest("GET", PARTS_LIST_ENDPOINT, [params |-> D(p2)])

(***************************************************************************)
(* __main__.py: the tool functions                                         *)
(***************************************************************************)
ToolNames ==
    { "search", "list_works", "get_object", "create_work", "get_part",
      "list_parts", "update_work" }

\* DevRevAPIError._parse_error_details, as its truth value and its str():
\* {} for an empty body and for the JSON body {}, the parsed object for a JSON
\* object, {"raw_error": ...} for anything else.
error_details_str(response_body) ==
    CASE response_body = "" -> ""
      [] response_body = "{}" -> ""
      [] response_body = "{\"message\":\"bad request\"}" -> "{'message': 'bad request'}"
      [] response_body = "{\"error\":\"denied\"}" -> "{'error': 'denied'}"
      [] response_body = "{\"message\":\"bad request\",\"error\":\"denied\"}" ->
             "{'message': 'bad request', 'error': 'denied'}"
      [] response_body = "[]" -> "{'raw_error': []}"
      [] response_body = "[\"message\"]" -> "{'raw_error': ['message']}"
      [] response_body = "null" -> "{'raw_error': None}"
      [] response_body = "7" -> "{'raw_error': 7}"
      [] response_body = "\"message lost\"" -> "{'raw_error': 'message lost'}"
      [] response_body = "\"oops\"" -> "{'raw_error': 'oops'}"
      [] response_body = "Not Found" -> "{'raw_error': 'Not Found'}"

\* str() of a value put into an f-string
PyStr(v) ==
    CASE IsStr(v) -> v.s
      [] v = None -> "None"
      [] DOMAIN v = {"n"} -> ToString(v.n)

\* DevRevAPIError.__str__
DevRevAPIError_str(e) ==
    LET head == PyStr(e.message) \o " (Status: " \o ToString(e.status_code) \o ")"
        details == error_details_str(e.response_body)
    IN  IF details # "" THEN head \o ": " \o details ELSE head

\* The text each tool puts before str(e) in its `except Exception` clause.
ToolErrorPrefix(name) ==
    CASE name = "search" -> "Error searching DevRev: "
      [] name = "list_works" -> "Error listing works: "
      [] name = "get_object" -> "Error getting DevRev object: "
      [] name = "create_work" -> "Error creating work: "
      [] name = "get_part" -> "Error getting part: "
      [] name = "list_parts" -> "Error listing parts: "
      [] name = "update_work" -> "Error updating work: "

\* len(x) raises TypeError on None and on a number.
HasLen(v) == IsStr(v) \/ IsList(v) \/ IsDict(v)

\* Mutant of the tools' return statements: get_part answers under the key of
\* list_parts.
ToolTryPartsKey(name, result) ==
    CASE name = "search" ->
             IF HasLen(result) THEN Return(D([results |-> result]))
             ELSE Raise("TypeError", "has no len()")
      [] name = "list_works" ->
             IF HasLen(result) THEN Return(D([works |-> result]))
             ELSE Raise("TypeError", "has no len()")
      [] name = "get_object" -> Return(result)
      [] name = "create_work" ->
             IF IsDict(result) THEN Return(D([work |-> result]))
             ELSE Raise("AttributeError", "get")
      [] name = "get_part" -> Return(D([parts |-> result]))
      [] name = "list_parts" ->
             IF HasLen(result) THEN Return(D([parts |-> result]))
             ELSE Raise("TypeError", "has no len()")
      [] name = "update_work" -> Return(D([work |-> result]))

\* The try block of a tool once the client operation has returned `result`:
\* the logging line (len(results), work.get("id")) and the return statement.
ToolTry(name, result) ==
    CASE name = "search" ->
             IF HasLen(result) THEN Return(D([results |-> result]))
             ELSE Raise("TypeError", "has no len()")
      [] name = "list_works" ->
             IF HasLen(result) THEN Return(D([works |-> result]))
             ELSE Raise("TypeError", "has no len()")
      [] name = "get_object" -> Return(result)
      [] name = "create_work" ->
             IF IsDict(result) THEN Return(D([work |-> result]))
             ELSE Raise("AttributeError", "get")
      [] name = "get_part" -> Return(D([part |-> result]))
      [] name = "list_parts" ->
             IF HasLen(result) THEN Return(D([parts |-> result]))
             ELSE Raise("TypeError", "has no len()")
      [] name = "update_work" -> Return(D([work |-> result]))

\* Mutant of the except clauses: the DevRevAPIError let through as it is.
ToolExceptReraising(name, e) ==
    IF e.exc = "DevRevAPIError" THEN e
    ELSE Raise("ValueError", ToolErrorPrefix(name) \o e.message)

\* The except clauses of a tool: `except DevRevAPIError`, `except Exception`.
ToolExcept(name, e) ==
    IF e.exc = "DevRevAPIError"
    THEN Raise("ValueError", "DevRev API error: " \o DevRevAPIError_str(e))
    ELSE Raise("ValueError", ToolErrorPrefix(name) \o e.message)

\* A tool function, given the outcome of the client operation it awaits.
tool(name, cl, result) ==
    IF cl = None THEN Raise("ValueError", "DevRev client not initialized")
    ELSE LET inner == IF Raised(result) THEN result ELSE ToolTry(name, result.value)
         IN  IF Raised(inner) THEN ToolExcept(name, inner) ELSE inner

\* What the caller of a client operation gets: the answer of the tool
\* function that awaits it, or the outcome itself when the executor was called
\* on its own.
Reply(name, cl, result) ==
    IF name \in ToolNames THEN tool(name, cl, result) ELSE result

(***************************************************************************)
(* State                                                                   *)
(***************************************************************************)
VARIABLES
    api_key,               \* config.api_key (DEVREV_API_KEY)
    max_retries,           \* config.api.retries (DEVREV_API_RETRIES)
    json_error_retryable,  \* whether the installed requests raises its own
                           \* JSONDecodeError (a RequestException) from
                           \* Response.json(), or a plain ValueError
    pc,                    \* "boot", "validating", "connected", "serving",
                           \* "executing", "done",
                           \* "exited"
    attempt,               \* validate_token: loop variable
    auth_trace,            \* validate_token: requests sent and sleeps made
    auth_last,             \* validate_token: what its final attempt produced
    user_info,             \* outcome of validate_token
    exit_status,           \* process exit status, None while running
    client,                \* __main__.client
    op,                    \* the client operation invoked last
    req,                   \* its call of _make_request, None if there is none
    retries,               \* _make_request: local retry counter
    trace,                 \* _make_request: requests sent and sleeps made
    last,                  \* _make_request: what the attempt that ended the call
                           \* produced, None before
    outcome,               \* outcome of the client operation
    reply,                 \* what the caller of the operation gets back, Pending
                           \* until the call has ended
    waiting                \* whether a further tool request has arrived at the
                           \* server and waits for the event loop

vars == << api_key, max_retries, json_error_retryable, pc, attempt, auth_trace,
           auth_last, user_info, exit_status, client, op, req, retries, trace, last, outcome,
           reply, waiting >>

config_vars == << api_key, max_retries, json_error_retryable >>
auth_vars == << attempt, auth_trace, auth_last, user_info >>
call_vars == << op, req, retries, trace, last, outcome, reply >>

RequestEvent(method, url, kwargs) ==
    [ev |-> "request", kwargs |-> kwargs, method |-> method, url |-> url]
SleepEvent(secs) == [ev |-> "sleep", secs |-> secs]

\* The requests and the sleep durations of a trace, in order.
RequestsOf(tr) == SelectSeq(tr, LAMBDA e : e.ev = "request")
SleepsOf(tr) ==
    LET sl == SelectSeq(tr, LAMBDA e : e.ev = "sleep")
    IN  [i \in 1..Len(sl) |-> sl[i].secs]

\* What one HTTP attempt of the try block yields: the parsed body, a
\* RequestException (handled by the except clause) or an exception the
\* except clause does not catch.
TryRequest(res) ==
    IF res \in Failures THEN [error |-> res, kind |-> "RequestException"]
    ELSE IF ~IsJson(res.text)
         THEN IF json_error_retryable
              THEN [error |-> NoResponse("JSONDecodeError"), kind |-> "RequestException"]
              ELSE [kind |-> "ValueError"]
    ELSE [data |-> json_loads(res.text), kind |-> "data"]

AuthResults == { Response(st, tx) : st \in SuccessStatuses, tx \in AuthSuccessTexts }
                  \cup Failures
ApiResults == { Response(st, tx) : st \in SuccessStatuses, tx \in ApiSuccessTexts }
                  \cup Failures

Init ==
    /\ api_key \in { None, S(""), S("pat-1") }
    /\ max_retries \in 0..MaxRetriesCap
    /\ json_error_retryable \in BOOLEAN
    /\ pc = "boot"
    /\ attempt = 0
    /\ auth_trace = << >>
    /\ auth_last = None
    /\ user_info = Pending
    /\ exit_status = None
    /\ client = None
    /\ op = None
    /\ req = None
    /\ retries = 0
    /\ trace = << >>
    /\ last = None
    /\ outcome = Pending
    /\ reply = Pending
    /\ waiting = FALSE

(***************************************************************************)
(* __main__.py: main and on_connect; auth.py: DevRevAuth.validate_token    *)
(***************************************************************************)
\* on_connect when the credential is unset: sys.exit(1)
OnConnectNoKey ==
    /\ pc = "boot"
    /\ ~Truthy(api_key)
    /\ pc' = "exited"
    /\ exit_status' = N(1)
    /\ UNCHANGED << waiting, config_vars, auth_vars, client, call_vars >>

\* on_connect calls validate_token, which enters its loop
OnConnectValidate ==
    /\ pc = "boot"
    /\ Truthy(api_key)
    /\ pc' = "validating"
    /\ attempt' = 0
    /\ UNCHANGED << waiting, config_vars, auth_trace, auth_last, user_info, exit_status, client,
                    call_vars >>

AuthRequest ==
    RequestEvent("GET", API_BASE_URL \o DEV_USER_SELF_ENDPOINT,
        [headers |-> [Authorization |-> api_key, ContentType |-> S("application/json")],
         timeout |-> ApiTimeout])

\* Mutant of on_connect: only None counts as a failed validation.
OnConnectContinueNoneOnly(info) ==
    IF info = None
    THEN /\ pc' = "exited"
         /\ exit_status' = N(1)
         /\ client' = client
    ELSE /\ pc' = "connected"
         /\ exit_status' = exit_status
         /\ client' = DevRevClient(api_key, info, max_retries)

\* The rest of on_connect once validate_token has returned user_info.
OnConnectContinue(info) ==
    IF ~Truthy(info)
    THEN /\ pc' = "exited"
         /\ exit_status' = N(1)
         /\ client' = client
    ELSE /\ pc' = "connected"
         /\ exit_status' = exit_status
         /\ client' = DevRevClient(api_key, info, max_retries)

\* `return user_data.get("dev_user")`; the mutant hands out an empty identity
\* when the key is absent.
ExtractIdentityOrEmpty(user_data) == DictGet(user_data, "dev_user", D(EmptyDict))
ExtractIdentity(user_data) == DictGet(user_data, "dev_user", None)

\* `wait_time = 2 ** attempt` before the retry that follows the failed
\* attempt number `att`; the mutant backs off like _make_request does.
AuthWaitTimeShifted(att) == Pow2(att + 1)
AuthWaitTime(att) == Pow2(att)

\* Whether the failed attempt number `att` is the last one.
AuthLastAttempt(att) == att = max_retries

\* One iteration of validate_token whose request succeeds and parses to a
\* JSON object: return user_data.get("dev_user").
ValidateReturns ==
    /\ pc = "validating"
    /\ \E res \in AuthResults :
         LET t == TryRequest(res)
         IN  /\ t.kind = "data"
             /\ IsDict(t.data)
             /\ auth_last' = res
             /\ auth_trace' = Append(auth_trace, AuthRequest)
             /\ user_info' = Return(ExtractIdentity(t.data))
             /\ OnConnectContinue(ExtractIdentity(t.data))
    /\ UNCHANGED << waiting, config_vars, attempt, call_vars >>

\* One iteration whose try block raises an exception the except clause does
\* not catch (AttributeError of .get on a non-object body, ValueError of a
\* body that is not JSON): it leaves validate_token, on_connect and main.
ValidateCrashes ==
    /\ pc = "validating"
    /\ \E res \in AuthResults :
         LET t == TryRequest(res)
         IN  /\ \/ t.kind = "ValueError"
                \/ t.kind = "data" /\ ~IsDict(t.data)
             /\ auth_last' = res
             /\ auth_trace' = Append(auth_trace, AuthRequest)
             /\ user_info' = IF t.kind = "ValueError"
                             THEN Raise("ValueError", "JSONDecodeError")
                             ELSE Raise("AttributeError", "get")
    /\ pc' = "exited"
    /\ exit_status' = N(1)
    /\ UNCHANGED << waiting, config_vars, attempt, client, call_vars >>

\* One iteration that fails with a RequestException before the last attempt:
\* sleep 2 ** attempt and go round the loop.
ValidateRetries ==
    /\ pc = "validating"
    /\ \E res \in AuthResults : TryRequest(res).kind = "RequestException"
    /\ ~AuthLastAttempt(attempt)
    /\ auth_trace' = auth_trace \o << AuthRequest, SleepEvent(AuthWaitTime(attempt)) >>
    /\ attempt' = attempt + 1
    /\ UNCHANGED << waiting, config_vars, pc, auth_last, user_info, exit_status, client, call_vars >>

\* The last attempt fails with a RequestException: return None.
ValidateGivesUp ==
    /\ pc = "validating"
    /\ \E res \in AuthResults :
         /\ TryRequest(res).kind = "RequestException"
         /\ auth_last' = TryRequest(res).error
    /\ AuthLastAttempt(attempt)
    /\ auth_trace' = Append(auth_trace, AuthRequest)
    /\ user_info' = Return(None)
    /\ OnConnectContinue(None)
    /\ UNCHANGED << waiting, config_vars, attempt, call_vars >>

\* main: on_connect has returned and mcp.run starts serving tool calls; the
\* locals of validate_token are gone.
ServerStarts ==
    /\ pc = "connected"
    /\ pc' = "serving"
    /\ attempt' = 0
    /\ auth_trace' = << >>
    /\ auth_last' = None
    /\ user_info' = Pending
    /\ UNCHANGED << waiting, config_vars, exit_status, client, call_vars >>

(***************************************************************************)
(* Tool invocations: one client operation at a time                        *)
(***************************************************************************)
Queries == { S("login bug") }
Namespaces ==
    { S(ns) : ns \in valid_namespaces }
        \cup { S("Issue"), S("artifact"), S("widget"), S(""), None }
WorkTypes == { S("issue"), S("task"), S("ticket"), S("Issue"), S(""), None }
Titles == { S("t1"), S("") }
OptParts == { None, S(""), S("PROD-1") }
OptBodies == { None, S(""), S("b1") }
OptTitles == { None, S(""), S("t2") }
OptRefs == { None, S("PROD-1") }
OptTexts == { None, S("b1") }
OptStages == { None, S("triage") }
OptStatuses == { None, S("closed") }
WorkIds == { S("ISS-1") }
ObjectIds ==
    { S("ISS-42"), S("TKT-42"), S("ART-7"), S("DEVU-1"), S("SELF"), S("XYZ-1"),
      S("iss-42"), S("tkt-42"), S("Art-7"), S("ISS"), S("XISS-1"), S("SELF-1"),
      S("self"), S("DEVU"), S("") }
OptWorkTypes == { None, S("issue") }
Owners == { None, S(""), S("self"), S("Self"), S("DEVU-2") }
Limits == { N(10), N(0) }
OptCursors == { None, S("c1") }
PartIds == { S("PROD-1") }
PartTypes == { S("feature"), S("Feature"), S("widget"), S("Widget"), S("") }
Methods == { "GET", "POST", "PUT", "DELETE", "get", "" }
DirectEndpoints == { PARTS_ENDPOINT }

\* kwargs.setdefault("timeout", self.timeout); kwargs.setdefault("headers", ...)
WithDefaults(self, kwargs) ==
    LET k1 == PutIf("timeout" \notin DOMAIN kwargs, kwargs, "timeout", self.timeout)
    IN  PutIf("headers" \notin DOMAIN k1, k1, "headers", self.headers)

\* Mutant of the scheduling: the backoff sleep as a suspension point (as with
\* `await asyncio.sleep`), at which the event loop starts the next tool call.
LoopIdleWhileSleeping == pc = "serving" \/ (pc = "executing" /\ retries > 0)

\* The event loop is free to start a tool call.  The tool coroutines and the
\* client coroutines they await never suspend: _make_request blocks in
\* requests.get / requests.post and in time.sleep, so the loop comes back only
\* when the running tool call has returned or raised.
LoopIdle == pc = "serving"

\* Mutant of an invocation: the Content-Type of the request written into the
\* headers the client shares between its calls.
InvokeWritingHeaders(name, args, result) ==
    /\ LoopIdle
    /\ op' = [args |-> args, name |-> name]
    /\ retries' = 0
    /\ trace' = << >>
    /\ last' = None
    /\ client' = [client EXCEPT !.headers.ContentType = S("application/" \o name)]
    /\ IF IsRequest(result)
       THEN /\ pc' = "executing"
            /\ req' = [result EXCEPT !.kwargs = WithDefaults(client, @)]
            /\ outcome' = Pending
            /\ reply' = Pending
       ELSE /\ pc' = "done"
            /\ req' = None
            /\ outcome' = result
            /\ reply' = Reply(name, client, result)
    /\ waiting' = FALSE
    /\ UNCHANGED << config_vars, auth_vars, exit_status >>

\* A tool is invoked and awaits its client operation, which either rejects
\* the call at once (the tool then answers) or enters _make_request with
\* retries = 0.
Invoke(name, args, result) ==
    /\ LoopIdle
    /\ op' = [args |-> args, name |-> name]
    /\ retries' = 0
    /\ trace' = << >>
    /\ last' = None
    /\ IF IsRequest(result)
       THEN /\ pc' = "executing"
            /\ req' = [result EXCEPT !.kwargs = WithDefaults(client, @)]
            /\ outcome' = Pending
            /\ reply' = Pending
       ELSE /\ pc' = "done"
            /\ req' = None
            /\ outcome' = result
            /\ reply' = Reply(name, client, result)
    /\ waiting' = FALSE
    /\ UNCHANGED << config_vars, auth_vars, exit_status, client >>

Search ==
    \E query \in Queries, namespace \in Namespaces :
        Invoke("search", [namespace |-> namespace, query |-> query],
               search(client, query, namespace))

ListWorks ==
    \E work_type \in OptWorkTypes, owned_by \in Owners, limit \in Limits,
       applies_to_part \in OptRefs, cursor \in OptCursors :
        Invoke("list_works",
               [applies_to_part |-> applies_to_part, cursor |-> cursor,
                limit |-> limit, owned_by |-> owned_by, work_type |-> work_type],
               list_works(client, work_type, owned_by, limit, applies_to_part, cursor))

CreateWork ==
    \E work_type \in WorkTypes, title \in Titles, applies_to_part \in OptParts,
       body \in OptBodies :
        Invoke("create_work",
               [applies_to_part |-> applies_to_part, body |-> body,
                title |-> title, work_type |-> work_type],
               create_work(client, work_type, title, applies_to_part, body))

UpdateWork ==
    \E work_id \in WorkIds, title \in OptTitles, applies_to_part \in OptRefs,
       body \in OptTexts, stage \in OptStages, status \in OptStatuses :
        Invoke("update_work",
               [applies_to_part |-> applies_to_part, body |-> body,
                stage |-> stage, status |-> status,
                title |-> title, work_id |-> work_id],
               update_work(client, work_id, title, applies_to_part, body, stage, status))

GetPart ==
    \E part_id \in PartIds :
        Invoke("get_part", [part_id |-> part_id], get_part(client, part_id))

ListParts ==
    \E part_type \in PartTypes, cursor \in OptCursors, parent_part \in OptRefs :
        Invoke("list_parts",
               [cursor |-> cursor, parent_part |-> parent_part, part_type |-> part_type],
               list_parts(client, part_type, cursor, parent_part))

GetObject ==
    \E object_id \in ObjectIds :
        Invoke("get_object", [object_id |-> object_id], get_object(client, object_id))

\* The executor called on its own, with any method.
MakeRequestCall ==
    \E method \in Methods, endpoint \in DirectEndpoints :
        Invoke("_make_request", [endpoint |-> endpoint, method |-> method],
               MakeRequest(method, endpoint, EmptyDict))

(***************************************************************************)
(* client.py: DevRevClient._make_request                                   *)
(***************************************************************************)
\* Mutant of the unwrapping: /works.update left out of the endpoint table.
EnvelopeWithoutUpdate(endpoint) ==
    CASE endpoint = SEARCH_ENDPOINT -> << "results", L(<< >>) >>
      [] endpoint = WORKS_LIST_ENDPOINT -> << "works", L(<< >>) >>
      [] endpoint = WORKS_CREATE_ENDPOINT -> << "work", D(EmptyDict) >>
      [] endpoint = PARTS_ENDPOINT -> << "part", D(EmptyDict) >>
      [] endpoint = PARTS_LIST_ENDPOINT -> << "parts", L(<< >>) >>
      [] OTHER -> << >>

\* Endpoint-specific unwrapping of the parsed body.
Envelope(endpoint) ==
    CASE endpoint = SEARCH_ENDPOINT -> << "results", L(<< >>) >>
      [] endpoint = WORKS_LIST_ENDPOINT -> << "works", L(<< >>) >>
      [] endpoint = WORKS_CREATE_ENDPOINT -> << "work", D(EmptyDict) >>
      [] endpoint = WORKS_UPDATE_ENDPOINT -> << "work", D(EmptyDict) >>
      [] endpoint = PARTS_ENDPOINT -> << "part", D(EmptyDict) >>
      [] endpoint = PARTS_LIST_ENDPOINT -> << "parts", L(<< >>) >>
      [] OTHER -> << >>

Unwrap(endpoint, data) ==
    LET env == Envelope(endpoint)
    IN  IF env = << >> THEN Return(data)
        ELSE IF IsDict(data) THEN Return(DictGet(data, env[1], env[2]))
        ELSE Raise("AttributeError", "get")

\* Mutant of the method dispatch: an unknown method handed on to the HTTP
\* library instead of being refused.
SupportedMethodAny(method) == TRUE

\* `if method == "GET" ... elif method == "POST" ... else: raise ValueError`
SupportedMethod(method) == method \in {"GET", "POST"}

\* `retries >= self.max_retries` of the except clause
RetriesExhausted(self, r) == r >= self.max_retries

\* Mutant of the backoff: the wait computed before retries is incremented.
WaitTimeBeforeIncrement(r) == Pow2(r - 1)

\* `wait_time = 2 ** retries`, retries already incremented
WaitTime(r) == Pow2(r)

\* `while retries <= self.max_retries`
LoopContinues(self, r) == r <= self.max_retries

\* The except clause at retry count r: the classifier's outcome when the
\* retries are exhausted, else nothing.
Classified(self, r, error) ==
    IF RetriesExhausted(self, r) THEN handle_api_error(error) ELSE Return(None)

\* Mutant of the request of an attempt: the timeout doubled with every retry,
\* so that a retry does not repeat the request it retries.
ThisRequestGrowingTimeout ==
    RequestEvent(req.method, API_BASE_URL \o req.endpoint,
                 [req.kwargs EXCEPT !["timeout"] = @ * Pow2(retries)])

ThisRequest == RequestEvent(req.method, API_BASE_URL \o req.endpoint, req.kwargs)

\* The attempt gets a 2xx response with a JSON body: unwrap and return (or
\* AttributeError when an enveloped endpoint's body is not an object).
AttemptSucceeds ==
    /\ pc = "executing"
    /\ SupportedMethod(req.method)
    /\ \E res \in ApiResults :
         LET t == TryRequest(res)
         IN  /\ t.kind = "data"
             /\ last' = res
             /\ outcome' = Unwrap(req.endpoint, t.data)
    /\ trace' = Append(trace, ThisRequest)
    /\ reply' = Reply(op.name, client, outcome')
    /\ pc' = "done"
    /\ UNCHANGED << waiting, config_vars, auth_vars, exit_status, client, op, req, retries >>

\* The attempt gets a 2xx response whose body is not JSON, and Response.json()
\* raises a plain ValueError: it leaves _make_request.
AttemptBadJson ==
    /\ pc = "executing"
    /\ SupportedMethod(req.method)
    /\ \E res \in ApiResults :
         /\ TryRequest(res).kind = "ValueError"
         /\ last' = res
    /\ outcome' = Raise("ValueError", "JSONDecodeError")
    /\ trace' = Append(trace, ThisRequest)
    /\ reply' = Reply(op.name, client, outcome')
    /\ pc' = "done"
    /\ UNCHANGED << waiting, config_vars, auth_vars, exit_status, client, op, req, retries >>

\* The attempt raises a RequestException and the loop goes on: increment
\* retries, sleep 2 ** retries.
AttemptRetries ==
    /\ pc = "executing"
    /\ SupportedMethod(req.method)
    /\ \E res \in ApiResults :
         LET t == TryRequest(res)
         IN  /\ t.kind = "RequestException"
             /\ ~Raised(Classified(client, retries, t.error))
    /\ LoopContinues(client, retries + 1)
    /\ retries' = retries + 1
    /\ trace' = trace \o << ThisRequest, SleepEvent(WaitTime(retries + 1)) >>
    /\ UNCHANGED << waiting, config_vars, auth_vars, exit_status, client, op, req, pc, last,
                    outcome, reply >>

\* The attempt raises a RequestException and the classifier raises: the
\* exception leaves _make_request.
AttemptClassified ==
    /\ pc = "executing"
    /\ SupportedMethod(req.method)
    /\ \E res \in ApiResults :
         LET t == TryRequest(res)
         IN  /\ t.kind = "RequestException"
             /\ Raised(Classified(client, retries, t.error))
             /\ last' = t.error
             /\ outcome' = Classified(client, retries, t.error)
    /\ trace' = Append(trace, ThisRequest)
    /\ reply' = Reply(op.name, client, outcome')
    /\ pc' = "done"
    /\ UNCHANGED << waiting, config_vars, auth_vars, exit_status, client, op, req, retries >>

\* The attempt raises a RequestException, the classifier returns, and after
\* the increment and the sleep the loop condition fails: the statement after
\* the loop raises Exception("Maximum retries exceeded").
AttemptFallsThrough ==
    /\ pc = "executing"
    /\ SupportedMethod(req.method)
    /\ \E res \in ApiResults :
         LET t == TryRequest(res)
         IN  /\ t.kind = "RequestException"
             /\ ~Raised(Classified(client, retries, t.error))
             /\ last' = t.error
    /\ ~LoopContinues(client, retries + 1)
    /\ retries' = retries + 1
    /\ trace' = trace \o << ThisRequest, SleepEvent(WaitTime(retries + 1)) >>
    /\ outcome' = Raise("Exception", "Maximum retries exceeded")
    /\ reply' = Reply(op.name, client, outcome')
    /\ pc' = "done"
    /\ UNCHANGED << waiting, config_vars, auth_vars, exit_status, client, op, req >>

\* The method is neither GET nor POST: the try block raises ValueError, which
\* the except clause does not catch, before anything is sent.
AttemptUnsupportedMethod ==
    /\ pc = "executing"
    /\ ~SupportedMethod(req.method)
    /\ outcome' = Raise("ValueError", "Unsupported HTTP method")
    /\ reply' = Reply(op.name, client, outcome')
    /\ pc' = "done"
    /\ UNCHANGED << waiting, config_vars, auth_vars, exit_status, client, op, req, retries,
                    trace, last >>

\* A further tool request reaches the server while a call is in the
\* executor; nothing reads it before the event loop is free.
RequestArrives ==
    /\ pc = "executing"
    /\ ~waiting
    /\ waiting' = TRUE
    /\ UNCHANGED << config_vars, auth_vars, exit_status, client, call_vars, pc >>

\* The tool function has answered and the server loop is ready for the next
\* invocation; the locals of the finished call are gone.
ToolReturns ==
    /\ pc = "done"
    /\ pc' = "serving"
    /\ op' = None
    /\ req' = None
    /\ retries' = 0
    /\ trace' = << >>
    /\ last' = None
    /\ outcome' = Pending
    /\ reply' = Pending
    /\ UNCHANGED << waiting, config_vars, auth_vars, exit_status, client >>

Next ==
    \/ OnConnectNoKey
    \/ OnConnectValidate
    \/ ValidateReturns
    \/ ValidateCrashes
    \/ ValidateRetries
    \/ ValidateGivesUp
    \/ ServerStarts
    \/ Search
    \/ ListWorks
    \/ CreateWork
    \/ UpdateWork
    \/ GetPart
    \/ ListParts
    \/ GetObject
    \/ MakeRequestCall
    \/ AttemptSucceeds
    \/ AttemptBadJson
    \/ AttemptRetries
    \/ AttemptClassified
    \/ AttemptFallsThrough
    \/ AttemptUnsupportedMethod
    \/ RequestArrives
    \/ ToolReturns

Spec == Init /\ [][Next]_vars

\* One pass through the loop body of _make_request.  requests.get and
\* requests.post return or raise within the timeout they are given, and
\* time.sleep returns: a call inside the loop always takes its next step.
ExecutorAttempt ==
    \/ AttemptSucceeds
    \/ AttemptBadJson
    \/ AttemptRetries
    \/ AttemptClassified
    \/ AttemptFallsThrough
    \/ AttemptUnsupportedMethod

LiveSpec == Spec /\ WF_vars(ExecutorAttempt)

(***************************************************************************)
(* Properties                                                              *)
(***************************************************************************)
\* A client operation has finished after entering _make_request.
ExecutorDone == pc = "done" /\ req # None

\* ... and its final attempt failed with an HTTP error response, a timeout or
\* a connection error.
ExecutorFailed == ExecutorDone /\ last \in Failures

\* Backoff durations 2, 4, ..., 2^n.
BackoffSeq(n) == [k \in 1..n |-> Pow2(k)]

\* m + 1 identical requests with the sleeps 2^1 .. 2^m between them.
BackoffTrace(m) ==
    [i \in 1..(2 * m + 1) |->
        IF i % 2 = 1 THEN ThisRequest ELSE SleepEvent(Pow2(i \div 2))]

\* C1: when every attempt of one executor call fails, the call makes exactly
\* max_retries + 1 attempts with sleeps of 2, 4, 8, ... seconds between them
\* (and no other sleep) before it raises.
C1_ExactAttemptsAndBackoff ==
    ExecutorFailed =>
        /\ Len(RequestsOf(trace)) = client.max_retries + 1
        /\ SleepsOf(trace) = BackoffSeq(client.max_retries)
        /\ trace = BackoffTrace(client.max_retries)
        /\ Raised(outcome)

\* C2: an executor call that exhausts its retries ends by raising a
\* structured DevRevAPIError, whatever the failure of the last attempt; the
\* statement after the loop is never reached.
C2_ExhaustionRaisesAPIError ==
    ExecutorFailed =>
        /\ Raised(outcome)
        /\ outcome.exc = "DevRevAPIError"

\* C3: with max_retries = 3, the backoff sleeps of one executor call add up
\* to at most 2 + 4 + 8 = 14 seconds.
C3_BackoffSumBounded ==
    (pc \in {"executing", "done"} /\ client.max_retries = 3) =>
        SumSeq(SleepsOf(trace)) <= 14

\* m + 1 identity requests with the sleeps 2^0 .. 2^(m - 1) between them.
AuthBackoffTrace(m) ==
    [i \in 1..(2 * m + 1) |->
        IF i % 2 = 1 THEN AuthRequest ELSE SleepEvent(Pow2((i \div 2) - 1))]

\* validate_token has ended on a request that failed at transport level.
AuthFailed == pc \in {"exited", "connected"} /\ auth_last \in Failures

\* C4: when every identity request fails, validate_token makes exactly
\* max_retries + 1 requests, sleeps 1, 2, 4, ... seconds before each retry and
\* not after the last attempt, and returns None without raising.
C4_ValidateTokenExhausted ==
    AuthFailed =>
        /\ Len(RequestsOf(auth_trace)) = max_retries + 1
        /\ SleepsOf(auth_trace) = [k \in 1..max_retries |-> Pow2(k - 1)]
        /\ auth_trace = AuthBackoffTrace(max_retries)
        /\ user_info = Return(None)

C4_Witness ==
    /\ AuthFailed
    /\ auth_last = NoResponse("Timeout")
    /\ max_retries >= 2
    /\ user_info = Return(None)

\* validate_token has ended on a 2xx response whose body is a JSON object
\* without the key dev_user.
AuthNoDevUser ==
    /\ pc \in {"exited", "connected"}
    /\ auth_last # None
    /\ HasResponse(auth_last)
    /\ auth_last.status \in SuccessStatuses
    /\ IsJson(auth_last.text)
    /\ IsDict(json_loads(auth_last.text))
    /\ "dev_user" \notin DOMAIN json_loads(auth_last.text).d

\* C5 as stated: a successful identity response without dev_user gives the
\* caller an identity, not the None that startup treats as fatal.
C5_PartialIdentityNotFatal ==
    AuthNoDevUser =>
        /\ user_info # Return(None)
        /\ pc # "exited"

\* C5 as amended: a successful identity response without dev_user makes
\* validate_token return None at once, without raising and without a retry;
\* on_connect treats it like exhausted retries and exits with status 1, no
\* client being constructed.
C5_MissingDevUserIsFatal ==
    AuthNoDevUser =>
        /\ user_info = Return(None)
        /\ pc = "exited"
        /\ exit_status = N(1)
        /\ client = None
        /\ auth_trace[Len(auth_trace)] = AuthRequest

C5_Witness ==
    /\ AuthNoDevUser
    /\ auth_last = Response(200, "{}")
    /\ Len(auth_trace) = 1
    /\ max_retries >= 1

\* The client operation `name` has been invoked.
Invoked(name) == op # None /\ op.name = name

\* The call was rejected before any network call: a ValueError with the given
\* text, no _make_request, no request sent, no sleep.
RejectedWith(msg) ==
    /\ pc = "done"
    /\ outcome = Raise("ValueError", msg)
    /\ req = None
    /\ trace = << >>

\* Every request sent so far by the current call is `method` on the endpoint
\* `endpoint` carrying `kwargs` besides the default timeout and headers.
EveryRequestIs(method, endpoint, kwargs) ==
    /\ pc \in {"executing", "done"}
    /\ req # None
    /\ req.method = method
    /\ req.endpoint = endpoint
    /\ \A k \in DOMAIN kwargs : k \in DOMAIN req.kwargs /\ req.kwargs[k] = kwargs[k]
    /\ DOMAIN req.kwargs = DOMAIN kwargs \cup {"timeout", "headers"}
    /\ \A i \in 1..Len(trace) :
         trace[i].ev = "request" =>
             /\ trace[i].method = method
             /\ trace[i].url = API_BASE_URL \o endpoint
             /\ trace[i].kwargs = req.kwargs

\* C6: create_work of an issue without a part reference (None or empty) is
\* rejected with a ValueError before any network call, for every title and
\* body.
C6_IssueNeedsPart ==
    ( /\ Invoked("create_work")
      /\ op.args.work_type = S("issue")
      /\ op.args.applies_to_part \in {None, S("")} )
        => RejectedWith("applies_to_part is required for issues")

C6_Witness ==
    /\ Invoked("create_work")
    /\ op.args.work_type = S("issue")
    /\ op.args.applies_to_part = S("")
    /\ op.args.body = S("b1")
    /\ pc = "done"

\* C7: create_work with a work type outside {issue, task}, ticket included,
\* is rejected with the unsupported-work-type ValueError and sends nothing,
\* whatever the title, the part reference and the body are.
C7_OnlyIssueAndTask ==
    ( /\ Invoked("create_work")
      /\ op.args.work_type # S("issue")
      /\ op.args.work_type # S("task") )
        => RejectedWith("Unsupported work type")

C7_Witness ==
    /\ Invoked("create_work")
    /\ op.args.work_type = S("ticket")
    /\ op.args.applies_to_part = S("PROD-1")
    /\ pc = "done"

UpdateFields == { "title", "applies_to_part", "body", "stage", "status" }

\* C8: update_work POSTs to /works.update a payload whose keys are id plus
\* exactly the optional fields that were supplied (not None), each with the
\* supplied value.
C8_UpdatePayloadIsPartial ==
    Invoked("update_work") =>
        LET supplied == { f \in UpdateFields : op.args[f] # None }
            payload == req.kwargs.json.d
        IN  /\ req # None
            /\ EveryRequestIs("POST", "/works.update", [json |-> req.kwargs.json])
            /\ DOMAIN payload = {"id"} \cup supplied
            /\ payload["id"] = op.args.work_id
            /\ \A f \in supplied : payload[f] = op.args[f]
            /\ (supplied = {"status"} /\ op.args.status = S("closed"))
                   => req.kwargs.json = D([id |-> op.args.work_id, status |-> S("closed")])
            /\ supplied = {} => req.kwargs.json = D([id |-> op.args.work_id])

C8_Witness ==
    /\ Invoked("update_work")
    /\ op.args.title = S("")
    /\ op.args.status = S("closed")
    /\ op.args.body = None
    /\ pc = "done"
    /\ Len(RequestsOf(trace)) >= 2

\* Literal, case-sensitive prefix test used to state C9.
HasPrefix(str, prefix) ==
    /\ Len(str) >= Len(prefix)
    /\ \A i \in 1..Len(prefix) : SubSeq(str, i, i) = SubSeq(prefix, i, i)

C10_SearchNamespace ==
    Invoked("search") =>
        LET ns == op.args.namespace
            known == IsStr(ns) /\ ns.s \in valid_namespaces
            wire == IF ~known THEN "issue"
                    ELSE IF ns.s = "article" THEN "artifact"
                    ELSE ns.s
        IN  /\ Cardinality(valid_namespaces) = 34
            /\ ~(pc = "done" /\ req = None)
            /\ EveryRequestIs("GET", "/search.core",
                   [params |-> D([limit |-> N(10),
                                  namespaces |-> S(wire),
                                  query |-> op.args.query])])

C10_Witness ==
    /\ Invoked("search")
    /\ op.args.namespace = S("article")
    /\ pc = "done"
    /\ Returned(outcome)

KnownPartTypes ==
    { "capability", "enhancement", "feature", "linkable", "runnable", "product" }

\* C11: list_parts never rejects or rewrites a part type: for a part_type
\* that is none of the 6 known tags, whatever its case, the call still sends
\* GET /parts.list, with the parameter type equal to part_type as given.
C11_UnknownPartTypeStillListed ==
    ( /\ Invoked("list_parts")
      /\ Lower(op.args.part_type.s) \notin KnownPartTypes )
        => /\ ~(pc = "done" /\ req = None)
           /\ EveryRequestIs("GET", "/parts.list", [params |-> req.kwargs.params])
           /\ "type" \in DOMAIN req.kwargs.params.d
           /\ req.kwargs.params.d["type"] = op.args.part_type
           /\ pc = "done" => Len(RequestsOf(trace)) >= 1

C11_Witness ==
    /\ Invoked("list_parts")
    /\ op.args.part_type = S("Widget")
    /\ op.args.cursor = S("c1")
    /\ pc = "done"
    /\ Returned(outcome)

\* A filter value that was set: not None, not the empty string, not 0.
FilterSet(v) == v \notin { None, S(""), N(0) }

\* C12: list_works sends GET /works.list with the parameters type, owned_by,
\* limit, applies_to_part and cursor, each present exactly when its value was
\* set; the owner "self" is replaced by the cached identity's id (and left
\* out when the identity has none), any other owner goes out unchanged.
C12_ListWorksParams ==
    Invoked("list_works") =>
        LET a == op.args
            identity == client.current_user.d
            owner == IF a.owned_by # S("self") THEN a.owned_by
                     ELSE IF "id" \in DOMAIN identity THEN identity["id"]
                     ELSE None
            wanted == [ applies_to_part |-> a.applies_to_part, cursor |-> a.cursor,
                        limit |-> a.limit, owned_by |-> owner, type |-> a.work_type ]
            params == req.kwargs.params.d
        IN  /\ ~(pc = "done" /\ req = None)
            /\ EveryRequestIs("GET", "/works.list", [params |-> req.kwargs.params])
            /\ DOMAIN params = { k \in DOMAIN wanted : FilterSet(wanted[k]) }
            /\ \A k \in DOMAIN params : params[k] = wanted[k]
            /\ a.owned_by \in { S("Self"), S("DEVU-2") } => params["owned_by"] = a.owned_by
            /\ (a.owned_by = S("self") /\ "id" \in DOMAIN identity)
                   => params["owned_by"] = S("DEVU-1")

C12_Witness ==
    /\ Invoked("list_works")
    /\ op.args.owned_by = S("self")
    /\ "id" \in DOMAIN client.current_user.d
    /\ op.args.limit = N(0)
    /\ op.args.cursor = S("c1")
    /\ pc = "done"
    /\ Returned(outcome)

\* The executor is at an attempt of a call whose method is not GET or POST.
OtherMethodCall == pc = "executing" /\ req.method \notin {"GET", "POST"}

\* C13: an executor call with a method other than GET or POST fails at once:
\* its first step (the first step that changes anything of the call) raises
\* ValueError, and no request has been sent, no sleep made and no retry
\* counted, before or after.
C13_OnlyGetAndPost ==
    [][ OtherMethodCall =>
            /\ trace = << >> /\ retries = 0
            /\ pc' = "done"
            /\ outcome' = Raise("ValueError", "Unsupported HTTP method")
            /\ trace' = << >> /\ retries' = 0
            /\ last' = None ]_call_vars

C13_Witness ==
    /\ pc = "done"
    /\ Invoked("_make_request")
    /\ op.args.method = "PUT"
    /\ req.method = "PUT"
    /\ outcome = Raise("ValueError", "Unsupported HTTP method")
    /\ trace = << >>

\* The executor call ended on a 2xx response.
ExecutorGot2xx ==
    /\ ExecutorDone
    /\ last # None
    /\ HasResponse(last)
    /\ last.status \in SuccessStatuses

\* The envelope key of an endpoint, "" for an endpoint without one.
EnvelopeKey(endpoint) ==
    CASE endpoint = "/search.core" -> "results"
      [] endpoint = "/works.list" -> "works"
      [] endpoint \in {"/works.create", "/works.update"} -> "work"
      [] endpoint = "/parts.get" -> "part"
      [] endpoint = "/parts.list" -> "parts"
      [] OTHER -> ""

\* What is returned when the envelope key is missing: an empty list for the
\* list endpoints, an empty object for the others.
EnvelopeDefault(endpoint) ==
    IF endpoint \in {"/search.core", "/works.list", "/parts.list"}
    THEN L(<< >>) ELSE D(EmptyDict)

\* The value the unwrapping picks from a parsed body.
Unwrapped(endpoint, body) ==
    IF EnvelopeKey(endpoint) = "" THEN body
    ELSE IF IsDict(body) /\ EnvelopeKey(endpoint) \in DOMAIN body.d
         THEN body.d[EnvelopeKey(endpoint)]
    ELSE EnvelopeDefault(endpoint)

\* C14 as stated: on every 2xx response the executor returns the value under
\* the endpoint's envelope key (the empty default when the key is missing),
\* or the raw parsed body for an endpoint without an envelope.
C14_UnwrapEvery2xx ==
    ExecutorGot2xx =>
        /\ IsJson(last.text)
        /\ Returned(outcome)
        /\ outcome.value = Unwrapped(req.endpoint, json_loads(last.text))

\* C14 as amended: that holds when the body parses to a JSON object, and for
\* an endpoint without an envelope whatever JSON value the body is; on an
\* endpoint with an envelope a JSON body that is not an object raises
\* AttributeError, and a 2xx body that is not JSON raises ValueError.
C14_UnwrapObjectBody ==
    ExecutorGot2xx =>
        IF ~IsJson(last.text)
        THEN Raised(outcome) /\ outcome.exc = "ValueError"
        ELSE IF IsDict(json_loads(last.text)) \/ EnvelopeKey(req.endpoint) = ""
        THEN outcome = Return(Unwrapped(req.endpoint, json_loads(last.text)))
        ELSE Raised(outcome) /\ outcome.exc = "AttributeError"

C14_Witness ==
    /\ ExecutorGot2xx
    /\ req.endpoint = "/works.update"
    /\ last.text = "{}"
    /\ outcome = Return(D(EmptyDict))
    /\ retries >= 1

\* A tool has answered its caller with a value.
ToolSucceeded == pc = "done" /\ op.name \in ToolNames /\ Returned(reply)

\* The key under which a tool wraps the client's result.
ResultKey(name) ==
    CASE name = "search" -> "results"
      [] name = "list_works" -> "works"
      [] name \in {"create_work", "update_work"} -> "work"
      [] name = "get_part" -> "part"
      [] name = "list_parts" -> "parts"

\* The answer is a JSON object with the single key `key`, holding `value`.
WrapsUnder(answer, key, value) ==
    /\ IsDict(answer)
    /\ DOMAIN answer.d = {key}
    /\ answer.d[key] = value

\* C15 as stated: every tool that succeeds, get_object included, answers with
\* a JSON object that wraps the client's result under one fixed key.
C15_EveryToolWraps ==
    ToolSucceeded =>
        /\ Returned(outcome)
        /\ IF op.name = "get_object"
           THEN /\ IsDict(reply.value)
                /\ \E key \in DOMAIN reply.value.d :
                       WrapsUnder(reply.value, key, outcome.value)
           ELSE WrapsUnder(reply.value, ResultKey(op.name), outcome.value)

\* C15 as amended: search, list_works, create_work, update_work, get_part and
\* list_parts answer with the client's result wrapped under results, works,
\* work, work, part and parts; get_object answers with the client's result
\* itself, unwrapped.
C15_ToolsWrapButGetObject ==
    ToolSucceeded =>
        /\ Returned(outcome)
        /\ IF op.name = "get_object"
           THEN reply.value = outcome.value
           ELSE WrapsUnder(reply.value, ResultKey(op.name), outcome.value)

C15_Witness ==
    /\ ToolSucceeded
    /\ op.name = "get_part"
    /\ outcome = Return(D([id |-> S("PROD-1")]))
    /\ reply = Return(D([part |-> D([id |-> S("PROD-1")])]))

\* A tool call has failed: the client operation raised, or the tool's own
\* try block did.
ToolFailed ==
    /\ pc = "done"
    /\ op.name \in ToolNames
    /\ Raised(outcome) \/ Raised(reply)

\* C16: every failure of a tool call reaches the caller as a ValueError that
\* carries a text and nothing else: a DevRevAPIError becomes "DevRev API
\* error: ..." with the status code inside the text, every other exception
\* "Error ...: " followed by its text, and a missing client is refused with a
\* ValueError as well.
C16_FailuresAreValueErrors ==
    /\ \A name \in ToolNames :
           tool(name, None, Pending) = Raise("ValueError", "DevRev client not initialized")
    /\ ToolFailed =>
           /\ Raised(reply)
           /\ reply.exc = "ValueError"
           /\ DOMAIN reply = {"exc", "kind", "message"}
           /\ IF Raised(outcome) /\ outcome.exc = "DevRevAPIError"
              THEN /\ HasPrefix(reply.message, "DevRev API error: ")
                   /\ Contains(reply.message,
                               "(Status: " \o ToString(outcome.status_code) \o ")")
              ELSE /\ HasPrefix(reply.message, "Error ")
                   /\ Raised(outcome) => Contains(reply.message, ": " \o outcome.message)

C16_Witness ==
    /\ ToolFailed
    /\ op.name = "search"
    /\ Raised(outcome)
    /\ outcome.exc = "DevRevAPIError"
    /\ outcome.status_code = 404
    /\ reply = Raise("ValueError",
                     "DevRev API error: The requested resource was not found. (Status: 404): {'raw_error': 'Not Found'}")

C18_ClientIsReadOnly ==
    [][ /\ client # None =>
              /\ client' = client
              /\ client'.api_key = client.api_key
              /\ client'.headers = client.headers
              /\ client'.current_user = client.current_user
              /\ api_key' = api_key
        /\ (pc = "serving" /\ pc' # "serving") => (retries' = 0 /\ trace' = << >>)
        /\ pc' \in {"executing", "done"} => retries' = Len(SleepsOf(trace')) ]_vars

C18_Witness ==
    /\ pc = "done"
    /\ Invoked("create_work")
    /\ max_retries >= 2
    /\ retries = max_retries
    /\ Len(SleepsOf(trace)) = max_retries
    /\ client = DevRevClient(api_key, D([display_name |-> S("Ada"), id |-> S("DEVU-1")]),
                             max_retries)

\* The final attempt of a finished executor call failed with an HTTP error
\* response, which the call handed to handle_api_error.
ClassifiedResponse == ExecutorFailed /\ HasResponse(last)

\* C19: handle_api_error, given an exception that carries an HTTP response,
\* raises a DevRevAPIError carrying the status code and the raw body text of
\* that response, for every status code and every body (text that is not
\* JSON, a JSON object, JSON null, a number, a string, an array); it neither
\* returns nor raises an exception of another type.
C19_ClassifierAlwaysRaisesAPIError ==
    ClassifiedResponse =>
        /\ outcome = handle_api_error(last)
        /\ Raised(outcome)
        /\ outcome.exc = "DevRevAPIError"
        /\ outcome.status_code = last.status
        /\ outcome.response_body = last.text

\* create_work was called with arguments its checks accept: an issue with a
\* part reference, or a task.
AcceptedCreateWork ==
    /\ Invoked("create_work")
    /\ \/ op.args.work_type = S("issue") /\ op.args.applies_to_part \notin {None, S("")}
       \/ op.args.work_type = S("task")

\* The optional arguments of the current call that were provided (non-empty).
ProvidedFields(names) ==
    { k \in names : op.args[k] \notin {None, S("")} }

\* C20: an accepted create_work call (an issue with a part reference, or a
\* task) sends POST /works.create, on every attempt with the same payload,
\* which holds type, title and owned_by, owned_by being the one-element list
\* of the id of the cached identity, and holds applies_to_part and body
\* exactly when they were provided (neither None nor empty), with the values
\* given.
C20_CreateWorkPayload ==
    AcceptedCreateWork =>
        /\ req # None
        /\ req.method = "POST"
        /\ req.endpoint = WORKS_CREATE_ENDPOINT
        /\ "json" \in DOMAIN req.kwargs
        /\ LET payload == req.kwargs.json.d
           IN  /\ DOMAIN payload = {"type", "title", "owned_by"}
                       \cup ProvidedFields({"applies_to_part", "body"})
               /\ payload["type"] = op.args.work_type
               /\ payload["title"] = op.args.title
               /\ payload["owned_by"] = L(<<DictGet(client.current_user, "id", None)>>)
               /\ \A k \in ProvidedFields({"applies_to_part", "body"}) :
                      payload[k] = op.args[k]
               /\ EveryRequestIs("POST", WORKS_CREATE_ENDPOINT, [json |-> D(payload)])
        /\ pc = "done" => Len(RequestsOf(trace)) >= 1

C20_Witness ==
    /\ AcceptedCreateWork
    /\ pc = "done"
    /\ Returned(outcome)
    /\ op.args.work_type = S("task")
    /\ op.args.applies_to_part = S("")
    /\ op.args.body = S("b1")
    /\ Len(RequestsOf(trace)) = 2
    /\ req.kwargs.json =
         D([body |-> S("b1"), owned_by |-> L(<<S("DEVU-1")>>), title |-> S("t1"),
            type |-> S("task")])

\* The final attempt of a finished executor call raised a RequestException
\* without a response (a timeout, a connection error), which the call handed
\* to handle_api_error.
ClassifiedNoResponse == ExecutorDone /\ last \in TransportFailures

\* The pair handle_api_error returns for a connectivity failure.
ConnectivityPair == T(<<S(ConnectMessage), N(503)>>)

ObjectBody(text) == IsJson(text) /\ IsDict(json_loads(text))

\* The fixed message of a status code.
FixedMessage(status) ==
    IF status = 401 THEN S(Msg401)
    ELSE IF status = 403 THEN S(Msg403)
    ELSE IF status = 404 THEN S(Msg404)
    ELSE IF status = 429 THEN S(Msg429)
    ELSE S(DefaultMessage)

\* C22: for an exception carrying an HTTP response whose body is a JSON object
\* or is not JSON, a DevRevAPIError is raised whose message is the body's
\* 'message' field if the object has one, else its 'error' field if it has
\* one ('message' wins when both are there); for a body that is not JSON it
\* is the fixed message of status 401, 403, 404 or 429 and the default
\* message for any other status.
C22_MessageSelection ==
    (ClassifiedResponse /\ (ObjectBody(last.text) \/ ~IsJson(last.text))) =>
        /\ Raised(outcome)
        /\ outcome.exc = "DevRevAPIError"
        /\ IF ObjectBody(last.text)
           THEN LET body == json_loads(last.text).d
                IN  /\ "message" \in DOMAIN body => outcome.message = body["message"]
                    /\ ("message" \notin DOMAIN body /\ "error" \in DOMAIN body) =>
                           outcome.message = body["error"]
           ELSE outcome.message = FixedMessage(last.status)

C22_Witness ==
    /\ ClassifiedResponse
    /\ last = Response(400, "{\"message\":\"bad request\",\"error\":\"denied\"}")
    /\ Raised(outcome)
    /\ outcome.exc = "DevRevAPIError"
    /\ outcome.message = S("bad request")

\* An executor call has returned: one of its attempts went through the try
\* block to a return statement, and it is the last attempt made.
ExecutorReturned == ExecutorDone /\ Returned(outcome)

\* C23: when the k-th attempt of an executor call is the first to succeed,
\* the call has made exactly k requests (1 <= k <= max_retries + 1) with
\* sleeps of 2^1, ..., 2^(k-1) seconds between them and no other sleep, it
\* returns the unwrapped body of the k-th response, and it sends nothing
\* after that; no executor call makes more than max_retries + 1 attempts,
\* and every executor call ends.
C23_FirstSuccessEndsCall ==
    /\ [](ExecutorReturned =>
            LET k == Len(RequestsOf(trace))
            IN  /\ k \in 1..(client.max_retries + 1)
                /\ retries = k - 1
                /\ SleepsOf(trace) = BackoffSeq(k - 1)
                /\ trace = BackoffTrace(k - 1)
                /\ HasResponse(last) /\ last.status \in SuccessStatuses
                /\ outcome = Return(Unwrapped(req.endpoint, json_loads(last.text))))
    /\ []((pc \in {"executing", "done"} /\ req # None) =>
            Len(RequestsOf(trace)) <=
                client.max_retries + (IF pc = "done" THEN 1 ELSE 0))
    /\ [][pc = "done" => (pc' = "serving" /\ trace' = << >>)]_vars
    /\ (pc = "executing") ~> (pc = "done")

C23_Witness ==
    /\ ExecutorReturned
    /\ Invoked("search")
    /\ client.max_retries = 3
    /\ Len(RequestsOf(trace)) = 3
    /\ SleepsOf(trace) = << 2, 4 >>
    /\ outcome = Return(L(<< S("r1") >>))

\* create_work or update_work has entered the executor.
WriteCall ==
    /\ pc \in {"executing", "done"}
    /\ req # None
    /\ op.name \in {"create_work", "update_work"}

\* The endpoint a write operation posts to.
WriteEndpoint(name) ==
    IF name = "create_work" THEN "/works.create" ELSE "/works.update"

\* C24: POST requests are retried like GET requests.  A create_work or
\* update_work call sends between 1 and max_retries + 1 requests, each of
\* them the same POST to /works.create (or /works.update) with the same
\* payload; after every failed attempt short of the ceiling the call is
\* about to send that request once more, and a call whose attempts all fail
\* has sent it max_retries + 1 times, as a call of any other operation has.
C24_PostIsRetried ==
    /\ WriteCall =>
          LET sent == RequestsOf(trace)
          IN  /\ req.method = "POST"
              /\ "json" \in DOMAIN req.kwargs
              /\ \A i \in 1..Len(sent) :
                    sent[i] = RequestEvent("POST", API_BASE_URL \o WriteEndpoint(op.name),
                                           req.kwargs)
              /\ Len(sent) <= client.max_retries + 1
              /\ pc = "done" => Len(sent) >= 1
              /\ pc = "executing" =>
                    /\ Len(sent) = retries
                    /\ Len(SleepsOf(trace)) = retries
                    /\ retries <= client.max_retries
    /\ ExecutorFailed => Len(RequestsOf(trace)) = client.max_retries + 1

C24_Witness ==
    /\ WriteCall
    /\ Invoked("create_work")
    /\ pc = "done"
    /\ Returned(outcome)
    /\ Len(RequestsOf(trace)) = 3
    /\ RequestsOf(trace)[1] = RequestsOf(trace)[3]
    /\ RequestsOf(trace)[1].method = "POST"
    /\ RequestsOf(trace)[1].kwargs.json =
         D([applies_to_part |-> S("PROD-1"), owned_by |-> L(<<S("DEVU-1")>>),
            title |-> S("t1"), type |-> S("issue")])

\* The message the classifier is to pick from an error response (C22), where
\* the body settles it.
MessageOfResponse(f) ==
    IF ObjectBody(f.text)
    THEN LET body == json_loads(f.text).d
         IN  IF "message" \in DOMAIN body THEN body["message"]
             ELSE IF "error" \in DOMAIN body THEN body["error"]
             ELSE S(DefaultMessage)
    ELSE IF ~IsJson(f.text) THEN FixedMessage(f.status)
    ELSE S(DefaultMessage)

\* C25: when all attempts of an executor call fail, every failure before the
\* last has been retried (max_retries + 1 requests were sent), and the error
\* raised is made from the last attempt alone: when that attempt got an HTTP
\* error response, the raised error carries the status code, the body and
\* the message of that response.
C25_OutcomeFromLastFailure ==
    ExecutorFailed =>
        /\ Len(RequestsOf(trace)) = client.max_retries + 1
        /\ Raised(outcome)
        /\ HasResponse(last) =>
              /\ outcome.exc = "DevRevAPIError"
              /\ outcome.status_code = last.status
              /\ outcome.response_body = last.text
              /\ ObjectBody(last.text) \/ ~IsJson(last.text) =>
                     outcome.message = MessageOfResponse(last)

====
